---- MODULE Spec2Model ----
(***************************************************************************)
(* Model of awscli.utils.split_on_commas (with its helpers) and of the     *)
(* `aws configure export` command.                                         *)
(*                                                                         *)
(* A Python str is a sequence of one-character strings.  The result of a   *)
(* call is a record: kind "return" with the returned tokens, or the name   *)
(* of the exception that escaped together with its argument.               *)
(***************************************************************************)
EXTENDS Integers, Sequences, FiniteSets, TLC

\* ---------------------------------------------------------------- bounds
MaxLen == 4

\* characters an input may be made of: a plain character, the characters
\* the code treats specially, and the two line-break characters, which the
\* csv tokenizer treats specially
DQ == "\""
SQ == "'"
BS == "\\"
CR == "\r"
NL == "\n"
Alphabet == {"a", ",", "=", DQ, SQ, "[", "]", BS, CR, NL}

StrsUpTo(S, n) == UNION {[1..k -> S] : k \in 0..n}

\* ------------------------------------------------- Python str primitives
\* c in s
Contains(s, c) == \E i \in 1..Len(s) : s[i] = c

\* s.find(sub): 0-based index of the first occurrence, -1 when absent
Find(s, sub) ==
    LET hits == {i \in 1..(Len(s) - Len(sub) + 1) :
                    SubSeq(s, i, i + Len(sub) - 1) = sub}
    IN  IF hits = {} THEN -1
        ELSE (CHOOSE i \in hits : \A j \in hits : i <= j) - 1

\* s.count(c)
Count(s, c) == Cardinality({i \in 1..Len(s) : s[i] = c})

\* s.replace(old, ''); old is one character or the empty string
Replace(s, old) == IF old = "" THEN s ELSE SelectSeq(s, LAMBDA x : x # old)

\* s.endswith(c)
EndsWith(s, c) == Len(s) > 0 /\ s[Len(s)] = c

\* s[a:b] with Python's treatment of a negative or out-of-range bound
Norm(s, k) == IF k < 0 THEN (IF Len(s) + k < 0 THEN 0 ELSE Len(s) + k)
              ELSE (IF k > Len(s) THEN Len(s) ELSE k)
Slice(s, a, b) == SubSeq(s, Norm(s, a) + 1, Norm(s, b))

\* ','.join(items)
RECURSIVE Join(_)
Join(items) ==
    IF items = <<>> THEN <<>>
    ELSE IF Len(items) = 1 THEN items[1]
    ELSE items[1] \o <<",">> \o Join(Tail(items))

\* a split that drops empty tokens, as str.split() without a separator does
RECURSIVE SplitDropsEmpty(_)
SplitDropsEmpty(s) ==
    LET k == Find(s, <<",">>)
    IN  IF k = -1 THEN (IF s = <<>> THEN <<>> ELSE <<s>>)
        ELSE (IF k = 0 THEN <<>> ELSE <<SubSeq(s, 1, k)>>)
             \o SplitDropsEmpty(SubSeq(s, k + 2, Len(s)))

\* s.split(',')
RECURSIVE Split(_)
Split(s) ==
    LET k == Find(s, <<",">>)
    IN  IF k = -1 THEN <<s>>
        ELSE <<SubSeq(s, 1, k)>> \o Split(SubSeq(s, k + 2, Len(s)))

\* ------------------------------------------------------------ results
Return(tokens) == [kind |-> "return", tokens |-> tokens, arg |-> <<>>]
Raise(exc, arg) == [kind |-> exc, tokens |-> <<>>, arg |-> arg]

\* a result together with the bracketed lists handled on the way to it:
\* for each, the chunk processed and the text handed to the recursive call
Logged(res, lists) == [res |-> res, lists |-> lists]

\* --------------------------------------------- csv.reader(escapechar='\\')
\* The reader of the csv module under the default (excel) dialect with the
\* escape character the code passes: delimiter ',', quotechar '"',
\* doublequote, minimal quoting, not strict.  One state record is the
\* reader's parse state: its automaton state, the field being collected,
\* the fields saved so far and whether it raised csv.Error.
EOL == "EOL"
delimiter == ","
quotechar == DQ
escapechar == BS

ReaderStart == [state |-> "START_RECORD", field |-> <<>>, fields |-> <<>>,
                error |-> FALSE]

parse_add_char(r, c) == [r EXCEPT !.field = Append(@, c)]
parse_save_field(r) == [r EXCEPT !.fields = Append(@, r.field), !.field = <<>>]
SetState(r, st) == [r EXCEPT !.state = st]

InField(r, c) ==
    IF c \in {NL, CR, EOL}
    THEN SetState(parse_save_field(r),
                  IF c = EOL THEN "START_RECORD" ELSE "EAT_CRNL")
    ELSE IF c = escapechar THEN SetState(r, "ESCAPED_CHAR")
    ELSE IF c = delimiter THEN SetState(parse_save_field(r), "START_FIELD")
    ELSE parse_add_char(r, c)

StartField(r, c) ==
    IF c \in {NL, CR, EOL}
    THEN SetState(parse_save_field(r),
                  IF c = EOL THEN "START_RECORD" ELSE "EAT_CRNL")
    ELSE IF c = quotechar THEN SetState(r, "IN_QUOTED_FIELD")
    ELSE IF c = escapechar THEN SetState(r, "ESCAPED_CHAR")
    ELSE IF c = delimiter THEN SetState(parse_save_field(r), "START_FIELD")
    ELSE SetState(parse_add_char(r, c), "IN_FIELD")

parse_process_char(r, c) ==
    CASE r.state = "START_RECORD" ->
            IF c = EOL THEN r
            ELSE IF c \in {NL, CR} THEN SetState(r, "EAT_CRNL")
            ELSE StartField(r, c)
      [] r.state = "START_FIELD" -> StartField(r, c)
      [] r.state = "ESCAPED_CHAR" ->
            IF c \in {NL, CR}
            THEN SetState(parse_add_char(r, c), "AFTER_ESCAPED_CRNL")
            ELSE SetState(parse_add_char(r, IF c = EOL THEN NL ELSE c),
                          "IN_FIELD")
      [] r.state = "AFTER_ESCAPED_CRNL" ->
            IF c = EOL THEN r ELSE InField(r, c)
      [] r.state = "IN_FIELD" -> InField(r, c)
      [] r.state = "IN_QUOTED_FIELD" ->
            IF c = EOL THEN r
            ELSE IF c = escapechar THEN SetState(r, "ESCAPE_IN_QUOTED_FIELD")
            ELSE IF c = quotechar THEN SetState(r, "QUOTE_IN_QUOTED_FIELD")
            ELSE parse_add_char(r, c)
      [] r.state = "ESCAPE_IN_QUOTED_FIELD" ->
            SetState(parse_add_char(r, IF c = EOL THEN NL ELSE c),
                     "IN_QUOTED_FIELD")
      [] r.state = "QUOTE_IN_QUOTED_FIELD" ->
            IF c = quotechar
            THEN SetState(parse_add_char(r, c), "IN_QUOTED_FIELD")
            ELSE IF c = delimiter
            THEN SetState(parse_save_field(r), "START_FIELD")
            ELSE IF c \in {NL, CR, EOL}
            THEN SetState(parse_save_field(r),
                          IF c = EOL THEN "START_RECORD" ELSE "EAT_CRNL")
            ELSE SetState(parse_add_char(r, c), "IN_FIELD")
      [] r.state = "EAT_CRNL" ->
            IF c \in {NL, CR} THEN r
            ELSE IF c = EOL THEN SetState(r, "START_RECORD")
            ELSE [r EXCEPT !.error = TRUE]

\* the characters of one line fed to the automaton, then the end of line
RECURSIVE ParseLine(_, _, _)
ParseLine(r, line, i) ==
    IF r.error THEN r
    ELSE IF i > Len(line) THEN parse_process_char(r, EOL)
    ELSE ParseLine(parse_process_char(r, line[i]), line, i + 1)

\* the lines StringIO(value) iterates over: each ends with its line feed,
\* except possibly the last
RECURSIVE StringIO(_)
StringIO(value) ==
    LET k == Find(value, <<NL>>)
    IN  IF value = <<>> THEN <<>>
        ELSE IF k = -1 THEN <<value>>
        ELSE <<SubSeq(value, 1, k + 1)>>
             \o StringIO(SubSeq(value, k + 2, Len(value)))

\* one row: lines are consumed until the automaton is back at the start of
\* a record; at the end of the input a field still open is saved
RECURSIVE Reader_iternext(_, _, _)
Reader_iternext(lines, i, r) ==
    IF i > Len(lines)
    THEN IF r.field # <<>> \/ r.state = "IN_QUOTED_FIELD"
         THEN [stop |-> FALSE, error |-> FALSE, next |-> i,
               row |-> parse_save_field(r).fields]
         ELSE [stop |-> TRUE, error |-> FALSE, next |-> i, row |-> <<>>]
    ELSE LET r2 == ParseLine(r, lines[i], 1)
         IN  IF r2.error
             THEN [stop |-> FALSE, error |-> TRUE, next |-> i, row |-> <<>>]
             ELSE IF r2.state = "START_RECORD"
             THEN [stop |-> FALSE, error |-> FALSE, next |-> i + 1,
                   row |-> r2.fields]
             ELSE Reader_iternext(lines, i + 1, r2)

RECURSIVE ReadRows(_, _, _)
ReadRows(lines, i, rows) ==
    LET n == Reader_iternext(lines, i, ReaderStart)
    IN  IF n.error THEN [error |-> TRUE, rows |-> <<>>]
        ELSE IF n.stop THEN [error |-> FALSE, rows |-> rows]
        ELSE ReadRows(lines, n.next, Append(rows, n.row))

\* list(csv.reader(six.StringIO(value), escapechar='\\')): every row of the
\* value, or csv.Error
csv_reader(value) == ReadRows(StringIO(value), 1, <<>>)

\* ------------------------------------------------------- awscli/utils.py
_find_quote_char_in_part(part) ==
    LET double_quote == Find(part, <<DQ>>)
        single_quote == Find(part, <<SQ>>)
    IN  IF ~Contains(part, DQ) /\ ~Contains(part, SQ) THEN "None"
        ELSE IF double_quote >= 0 /\ single_quote = -1 THEN DQ
        ELSE IF single_quote >= 0 /\ double_quote = -1 THEN SQ
        ELSE IF double_quote < single_quote THEN DQ
        ELSE IF single_quote < double_quote THEN SQ
        ELSE "None"

\* _eat_items with the iterator as the index i of the part it yields next:
\* the joined chunk and the iterator's new position, or ValueError(value)
RECURSIVE EatLoop(_, _, _, _, _, _)
EatLoop(value, parts, i, chunks, end_char, replace_char) ==
    IF i > Len(parts) THEN [raised |-> TRUE, chunk |-> <<>>, next |-> i]
    ELSE LET current == parts[i]
             chunks2 == Append(chunks, Replace(current, replace_char))
         IN  IF EndsWith(current, end_char)
             THEN [raised |-> FALSE, chunk |-> Join(chunks2), next |-> i + 1]
             ELSE EatLoop(value, parts, i + 1, chunks2, end_char, replace_char)

_eat_items(value, parts, i, part, end_char, replace_char) ==
    EatLoop(value, parts, i, <<Replace(part, replace_char)>>, end_char,
            replace_char)

RECURSIVE _split_with_quotes(_)
RECURSIVE PartsLoop(_, _, _, _, _)

\* a list test that does not look for a `]` in the whole value
IsListWithoutCloseCheck(value, part) ==
    LET quote_char == _find_quote_char_in_part(part)
        list_start == Find(part, <<"=", "[">>)
    IN  /\ list_start >= 0
        /\ (quote_char = "None" \/ Find(part, <<quote_char>>) > list_start)

\* the code's condition for treating a rough token as a bracketed list
IsList(value, part) ==
    LET quote_char == _find_quote_char_in_part(part)
        list_start == Find(part, <<"=", "[">>)
    IN  /\ list_start >= 0
        /\ Find(value, <<"]">>) # -1
        /\ (quote_char = "None" \/ Find(part, <<quote_char>>) > list_start)

\* the chunk of a bracketed list: the part itself, or the parts eaten up to
\* one that ends with ']'
ListChunk(value, parts, i) ==
    IF Contains(parts[i], "]")
    THEN [raised |-> FALSE, chunk |-> parts[i], next |-> i + 1]
    ELSE _eat_items(value, parts, i + 1, parts[i], "]", "")

\* a slice that keeps the closing bracket
ListInnerKeepsBracket(new_chunk, list_start) ==
    Slice(new_chunk, list_start + 2, Len(new_chunk))

\* the text of the chunk handed to the recursive call
ListInner(new_chunk, list_start) == Slice(new_chunk, list_start + 2, -1)

\* the body of `for part in iter_parts`, from the part at index i on
PartsLoop(value, parts, i, new_parts, lists) ==
    IF i > Len(parts) THEN Logged(Return(new_parts), lists)
    ELSE
    LET part == parts[i]
        quote_char == _find_quote_char_in_part(part)
        list_start == Find(part, <<"=", "[">>)
    IN  IF IsList(value, part)
        THEN LET e == ListChunk(value, parts, i)
             IN  IF e.raised THEN Logged(Raise("ValueError", value), lists)
                 ELSE
                 LET inner == ListInner(e.chunk, list_start)
                     list_items == _split_with_quotes(inner)
                     lists2 == Append(lists, [chunk |-> e.chunk,
                                              list_start |-> list_start,
                                              inner |-> inner])
                               \o list_items.lists
                 IN  IF list_items.res.kind # "return"
                     THEN Logged(list_items.res, lists2)
                     ELSE PartsLoop(value, parts, e.next,
                              Append(new_parts,
                                     Slice(e.chunk, 0, list_start + 1)
                                     \o Join(list_items.res.tokens)),
                              lists2)
        ELSE IF quote_char = "None"
        THEN PartsLoop(value, parts, i + 1, Append(new_parts, part), lists)
        ELSE IF Count(part, quote_char) = 2
        THEN PartsLoop(value, parts, i + 1,
                       Append(new_parts, Replace(part, quote_char)), lists)
        ELSE LET e == _eat_items(value, parts, i + 1, part, quote_char,
                                 quote_char)
             IN  IF e.raised THEN Logged(Raise("ValueError", value), lists)
                 ELSE PartsLoop(value, parts, e.next,
                                Append(new_parts, e.chunk), lists)

\* "Bad csv value: "
BadCsvValue == <<"B", "a", "d", " ", "c", "s", "v", " ", "v", "a", "l", "u",
                 "e", ":", " ">>
\* the message of an exception the library raises is not modelled
LibraryMessage == <<>>

_split_with_quotes(value) ==
    LET rd == csv_reader(value)
    IN  IF rd.error
        THEN Logged(Raise("ValueError", BadCsvValue \o value), <<>>)
        ELSE IF rd.rows = <<>>
        THEN Logged(Raise("IndexError", LibraryMessage), <<>>)
        ELSE PartsLoop(value, rd.rows[1], 1, <<>>, <<>>)

\* a split_on_commas without the fast path
SplitAlwaysTokenizes(value) ==
    IF ~\E char \in {DQ, SQ, "[", "]"} : Contains(value, char)
    THEN LET rd == csv_reader(value)
         IN  IF rd.error THEN Logged(Raise("csv.Error", LibraryMessage), <<>>)
             ELSE IF rd.rows = <<>>
             THEN Logged(Raise("IndexError", LibraryMessage), <<>>)
             ELSE Logged(Return(rd.rows[1]), <<>>)
    ELSE _split_with_quotes(value)

split_on_commas(value) ==
    IF ~\E char \in {DQ, BS, SQ, "]", "["} : Contains(value, char)
    THEN Logged(Return(Split(value)), <<>>)
    ELSE IF ~\E char \in {DQ, SQ, "[", "]"} : Contains(value, char)
    THEN LET rd == csv_reader(value)
         IN  IF rd.error THEN Logged(Raise("csv.Error", LibraryMessage), <<>>)
             ELSE IF rd.rows = <<>>
             THEN Logged(Raise("IndexError", LibraryMessage), <<>>)
             ELSE Logged(Return(rd.rows[1]), <<>>)
    ELSE _split_with_quotes(value)

\* ------------------------------- customizations/configure/export.py
NOT_SET == "<not set>"
Names == {"access_key", "secret_key", "region"}

\* what one lookup source of the session holds for each variable; the
\* value names its source so that the lines printed can be told apart
Lookups(tag) == [Names -> {"None", tag}]
\* what session.get_credentials() returns: None, or credentials
NoCredentials == [none |-> TRUE, access_key |-> "", secret_key |-> ""]
Credentials == {NoCredentials,
                [none |-> FALSE, access_key |-> "cred_access_key",
                 secret_key |-> "cred_secret_key"]}

_lookup_config(envv, cfg, name) ==
    IF envv[name] # "None" THEN envv[name]
    ELSE IF cfg[name] # "None" THEN cfg[name]
    ELSE NOT_SET

_lookup_credentials(envv, cfg, creds) ==
    LET access_key == _lookup_config(envv, cfg, "access_key")
    IN  IF access_key # NOT_SET
        THEN <<access_key, _lookup_config(envv, cfg, "secret_key")>>
        ELSE IF creds.none THEN <<NOT_SET, NOT_SET>>
        ELSE <<creds.access_key, creds.secret_key>>

\* print("export KEY=%s" % val)
ExportLine(key, val) == [key |-> key, val |-> val]

_run_main(envv, cfg, creds) ==
    LET keys == _lookup_credentials(envv, cfg, creds)
        region == _lookup_config(envv, cfg, "region")
    IN  <<ExportLine("AWS_ACCESS_KEY_ID", keys[1]),
          ExportLine("AWS_SECRET_ACCESS_KEY", keys[2])>>
        \o (IF region # NOT_SET
            THEN <<ExportLine("AWS_DEFAULT_REGION", region)>>
            ELSE <<>>)

\* ------------------------------------------------------- shaped inputs
MaxItems == 2
MaxPieces == 2
MaxElems == 2

\* the texts a plain item is drawn from: no comma, quote, bracket or
\* backslash
PlainTexts == {<<>>, <<"a">>, <<"=">>, <<CR>>, <<NL>>}
NonEmptyTexts == PlainTexts \ {<<>>}
SeqsUpTo(S, lo, hi) == UNION {[1..k -> S] : k \in lo..hi}

\* plain items with one item of interest inserted after the first `at`
Around(items, at, item) ==
    SubSeq(items, 1, at) \o <<item>> \o SubSeq(items, at + 1, Len(items))

\* an input with one quoted segment: the segment is an item of its own
\* (lead empty) or ends an item after an `=` (lead is text ending in `=`)
QuotedShapes ==
    {sh \in [kind : {"quoted"},
             items : SeqsUpTo(PlainTexts, 0, MaxItems),
             at : 0..MaxItems,
             lead : {<<>>} \cup {t \o <<"=">> : t \in PlainTexts},
             quote : {DQ, SQ},
             pieces : SeqsUpTo(PlainTexts, 2, MaxPieces)] :
        sh.at <= Len(sh.items)}

QuotedInput(sh) ==
    Join(Around(sh.items, sh.at,
                sh.lead \o <<sh.quote>> \o Join(sh.pieces) \o <<sh.quote>>))

\* an input with one bracketed list k=[e1,...,en]
ListShapes ==
    {sh \in [kind : {"list"},
             items : SeqsUpTo(PlainTexts, 0, MaxItems),
             at : 0..MaxItems,
             k : NonEmptyTexts,
             elems : SeqsUpTo(NonEmptyTexts, 1, MaxElems)] :
        sh.at <= Len(sh.items)}

ListInput(sh) ==
    Join(Around(sh.items, sh.at,
                sh.k \o <<"=", "[">> \o Join(sh.elems) \o <<"]">>))

\* ------------------------------------------------------------- the model
\* value, result, lists: the argument of split_on_commas, what the call
\*   returned or raised, and the bracketed lists it handled
\* rejoined, result2: the tokens of result joined with commas, and the
\*   result of splitting that again
\* shape: how a shaped input was put together
\* env, config, credentials, stdout: what the session's lookups hold for
\*   the export command, and the lines it printed
\* pc: "start" before the call, "done" after it, "resplit" after the
\*   second split
VARIABLES value, result, lists, rejoined, result2, shape,
          env, config, credentials, stdout, pc
vars == <<value, result, lists, rejoined, result2, shape,
          env, config, credentials, stdout, pc>>
splitVars == <<value, result, lists, rejoined, result2, shape>>
exportVars == <<env, config, credentials, stdout>>

NoResult == [kind |-> "none", tokens |-> <<>>, arg |-> <<>>]
NoShape == [kind |-> "none"]

NotCalled ==
    /\ result = NoResult
    /\ lists = <<>>
    /\ rejoined = <<>>
    /\ result2 = NoResult
    /\ pc = "start"

NoSession ==
    /\ env = [n \in Names |-> "None"]
    /\ config = [n \in Names |-> "None"]
    /\ credentials = NoCredentials
    /\ stdout = <<>>

Init ==
    /\ value \in StrsUpTo(Alphabet, MaxLen)
    /\ shape = NoShape
    /\ NotCalled
    /\ NoSession

InitQuoted ==
    /\ shape \in QuotedShapes
    /\ value = QuotedInput(shape)
    /\ NotCalled
    /\ NoSession

InitList ==
    /\ shape \in ListShapes
    /\ value = ListInput(shape)
    /\ NotCalled
    /\ NoSession

InitExport ==
    /\ env \in Lookups("env")
    /\ config \in Lookups("config")
    /\ credentials \in Credentials
    /\ stdout = <<>>
    /\ value = <<>>
    /\ shape = NoShape
    /\ NotCalled

\* split_on_commas(value)
Call ==
    /\ pc = "start"
    /\ LET r == split_on_commas(value)
       IN  result' = r.res /\ lists' = r.lists
    /\ pc' = "done"
    /\ UNCHANGED <<value, rejoined, result2, shape, exportVars>>

\* split_on_commas(','.join(result)) on a result that was returned
Resplit ==
    /\ pc = "done"
    /\ result.kind = "return"
    /\ rejoined' = Join(result.tokens)
    /\ result2' = split_on_commas(Join(result.tokens)).res
    /\ pc' = "resplit"
    /\ UNCHANGED <<value, result, lists, shape, exportVars>>

\* ExportCommand._run_main
RunMain ==
    /\ pc = "start"
    /\ stdout' = _run_main(env, config, credentials)
    /\ pc' = "done"
    /\ UNCHANGED <<env, config, credentials, splitVars>>

Next == Call \/ Resplit
NextCall == Call
NextExport == RunMain

Spec == Init /\ [][Next]_vars
SpecQuoted == InitQuoted /\ [][NextCall]_vars
SpecList == InitList /\ [][NextCall]_vars
SpecExport == InitExport /\ [][NextExport]_vars

\* ------------------------------------------------------------ claims
HasAny(s, S) == \E i \in 1..Len(s) : s[i] \in S
Called == pc # "start"

\* tokens is the plain split of s on commas: the tokens hold no comma and
\* give s back when joined with commas
IsPlainSplit(tokens, s) ==
    /\ Len(tokens) = Count(s, ",") + 1
    /\ \A i \in 1..Len(tokens) : ~Contains(tokens[i], ",")
    /\ Join(tokens) = s

\* C3: an input with none of the characters " \ ' [ ] is returned as its
\* plain split on commas, with empty tokens for the empty input and for
\* leading, trailing or adjacent commas.
C3_PlainInputIsPlainSplit ==
    (Called /\ ~HasAny(value, {DQ, BS, SQ, "[", "]"})) =>
        /\ result.kind = "return"
        /\ IsPlainSplit(result.tokens, value)

C3_Witness ==
    /\ Called
    /\ ~HasAny(value, {DQ, BS, SQ, "[", "]"})
    /\ Count(value, ",") >= 2
    /\ result.kind = "return"
    /\ Len(result.tokens) = 3
    /\ result.tokens[1] = <<>>
    /\ result.tokens[3] = <<>>

\* a quote character is opened and not closed by the end of the input; a
\* character after a backslash is escaped and opens or closes nothing
RECURSIVE QuoteLeftOpen(_, _, _)
QuoteLeftOpen(s, i, q) ==
    IF i > Len(s) THEN q # "None"
    ELSE IF s[i] = BS THEN QuoteLeftOpen(s, i + 2, q)
    ELSE IF q = "None"
    THEN QuoteLeftOpen(s, i + 1, IF s[i] \in {DQ, SQ} THEN s[i] ELSE "None")
    ELSE QuoteLeftOpen(s, i + 1, IF s[i] = q THEN "None" ELSE q)

\* C4 (as claimed): an input in which a quote is opened and never closed
\* makes split_on_commas fail with ValueError.
C4_UnbalancedQuoteRaises ==
    (Called /\ QuoteLeftOpen(value, 1, "None")) => result.kind = "ValueError"

\* the comma-separated item that holds position p of s, as positions
ItemFirst(s, p) ==
    LET before == {j \in 1..(p - 1) : s[j] = ","}
    IN  IF before = {} THEN 1
        ELSE (CHOOSE j \in before : \A k \in before : k <= j) + 1
ItemLast(s, p) ==
    LET after == {j \in p..Len(s) : s[j] = ","}
    IN  IF after = {} THEN Len(s)
        ELSE (CHOOSE j \in after : \A k \in after : j <= k) - 1

\* a list is opened with =[ and no ] follows it
ListLeftOpen(s) ==
    \E i \in 1..(Len(s) - 1) :
        /\ s[i] = "=" /\ s[i + 1] = "["
        /\ \A j \in (i + 2)..Len(s) : s[j] # "]"

\* C5 (as claimed): an input in which a list is opened with =[ and no ]
\* occurs before the end of the input makes split_on_commas fail with
\* ValueError.
C5_UnbalancedBracketRaises ==
    (Called /\ ListLeftOpen(value)) => result.kind = "ValueError"

\* the first item that holds =[ holds no ], and no item after it ends with ]
ListNeverClosed(s) ==
    LET p == Find(s, <<"=", "[">>) + 1
        last == ItemLast(s, p)
    IN  /\ p >= 1
        /\ \A j \in ItemFirst(s, p)..last : s[j] # "]"
        /\ \A j \in (last + 1)..Len(s) :
              s[j] = "]" => (j < Len(s) /\ s[j + 1] # ",")

\* C5 (amended): in an input without quotes, backslashes or line breaks
\* whose first item holding =[ holds no ] and is followed by no item ending
\* with ], the open list is an error exactly when a ] occurs somewhere in
\* the input: then the call fails with ValueError carrying the input;
\* without any ] the input is returned as its plain split on commas.
C5_OpenListRaisesOnlyWithCloseBracket ==
    (/\ Called
     /\ ~HasAny(value, {DQ, SQ, BS, CR, NL})
     /\ ListNeverClosed(value)) =>
        IF Contains(value, "]")
        THEN result = Raise("ValueError", value)
        ELSE result.kind = "return" /\ IsPlainSplit(result.tokens, value)

C5_Witness ==
    /\ Called
    /\ ~HasAny(value, {DQ, SQ, BS, CR, NL})
    /\ ListNeverClosed(value)
    /\ Contains(value, "]")
    /\ result = Raise("ValueError", value)

\* C6 (as claimed): a call returns a sequence of strings or fails with
\* ValueError; no other exception escapes.
C6_OnlyValueErrorEscapes ==
    Called => result.kind \in {"return", "ValueError"}

\* C7 (as claimed): a ValueError carries the full input the call was given.
C7_ErrorCarriesInput ==
    (Called /\ result.kind = "ValueError") => result.arg = value

NoneHasAny(tokens, S) == \A i \in 1..Len(tokens) : ~HasAny(tokens[i], S)

\* C8 (as claimed): when the tokens returned hold no quote and no bracket,
\* splitting them joined with commas returns the same tokens.
C8_ResplitStable ==
    (pc = "resplit" /\ NoneHasAny(result.tokens, {DQ, SQ, "[", "]"})) =>
        result2 = Return(result.tokens)

\* C8 (amended): when at least one token is returned and the tokens hold
\* no quote, no bracket, no backslash and no comma, splitting them joined
\* with commas returns the same tokens.
C8_ResplitStableWithoutCommaOrBackslash ==
    (pc = "resplit"
     /\ Len(result.tokens) >= 1
     /\ NoneHasAny(result.tokens, {DQ, SQ, "[", "]", BS, ","})) =>
        result2 = Return(result.tokens)

C8_Witness ==
    /\ pc = "resplit"
    /\ NoneHasAny(result.tokens, {DQ, SQ, "[", "]", BS, ","})
    /\ HasAny(value, {DQ, SQ, "[", "]"})
    /\ Len(result.tokens) >= 2
    /\ result2 = Return(result.tokens)

\* C10 (as claimed): every chunk handled as a bracketed list ends with ],
\* and the text handed to the recursive split is the text strictly between
\* the =[ and that trailing ].
C10_ListChunkEndsWithBracket ==
    Called =>
        \A i \in 1..Len(lists) :
            /\ EndsWith(lists[i].chunk, "]")
            /\ lists[i].inner = SubSeq(lists[i].chunk,
                                       lists[i].list_start + 3,
                                       Len(lists[i].chunk) - 1)

\* the tokens a shaped input stands for
QuotedExpected(sh) == Around(sh.items, sh.at, sh.lead \o Join(sh.pieces))
ListExpected(sh) ==
    Around(sh.items, sh.at, sh.k \o <<"=">> \o Join(sh.elems))

\* C1 (as claimed, on inputs without line breaks): for plain items (no
\* quote, bracket or backslash) of which one is, or ends after an = with,
\* a segment quoted with " or with ' whose content is plain text with
\* commas, the result is the plain items in order with the segment's
\* content, quotes removed and commas kept, as one token.
C1_QuotedSegmentIsOneToken ==
    (Called /\ ~HasAny(value, {CR, NL})) =>
        result = Return(QuotedExpected(shape))

\* C2 (as claimed): an input k=[e1,...,en] among plain items, with k and
\* every ei non-empty text without commas, quotes, brackets or
\* backslashes, yields the one token k=e1,...,en and the items unchanged.
C2_ListIsOneToken ==
    Called => result = Return(ListExpected(shape))

\* C2 (amended): the same, for inputs that also hold no carriage return
\* and no line feed.
C2_ListIsOneTokenWithoutLineBreaks ==
    (Called /\ ~HasAny(value, {CR, NL})) =>
        result = Return(ListExpected(shape))

C2_Witness ==
    /\ Called
    /\ ~HasAny(value, {CR, NL})
    /\ Len(shape.elems) = 2
    /\ Len(shape.items) = 2 /\ shape.at = 1
    /\ result = Return(ListExpected(shape))

\* C9 (as claimed): the export command prints a line only for a value that
\* is not NOT_SET.
C9_OnlyResolvedValuesPrinted ==
    pc = "done" => \A i \in 1..Len(stdout) : stdout[i].val # NOT_SET

====
